---------------------------- MODULE Spec2Model ----------------------------
(***************************************************************************)
(* Model of scripts/rosmsg_to_asn1.py: the translation of ROS message      *)
(* definitions into ASN.1 modules and the worklist loop of main that       *)
(* follows the dependencies of the requested messages.                     *)
(*                                                                         *)
(* A Python string is modelled as the sequence of its characters (each a   *)
(* one-character TLA+ string), so that find, split, slicing, lower,        *)
(* replace, int and str are computed character by character as the code    *)
(* computes them.  Indices of strings are Python's (0-based, -1 for "not   *)
(* found").  A Python dict is a sequence of <<key, value>> pairs in        *)
(* insertion order.                                                        *)
(***************************************************************************)
EXTENDS Integers, Sequences, FiniteSets, TLC

(***************************************************************************)
(* Bounds of the model.                                                    *)
(***************************************************************************)
\* longest list of names given on the command line
MaxRequest == 2
\* largest number of fields of the message whose definition is drawn in Init
MaxFields == 2

(***************************************************************************)
(* Python string and list primitives.                                      *)
(***************************************************************************)
Digits == <<"0","1","2","3","4","5","6","7","8","9">>

UpperCase == <<"A","B","C","D","E","F","G","H","I","J","K","L","M",
               "N","O","P","Q","R","S","T","U","V","W","X","Y","Z">>

LowerCase == <<"a","b","c","d","e","f","g","h","i","j","k","l","m",
               "n","o","p","q","r","s","t","u","v","w","x","y","z">>

\* x in seq
InSeq(x, seq) == \E i \in 1..Len(seq) : seq[i] = x

\* seq.index(x), 1-based, for x in seq
IndexOf(x, seq) == CHOOSE i \in 1..Len(seq) : seq[i] = x /\ \A j \in 1..(i-1) : seq[j] # x

\* s.find(c) for a one-character c: 0-based index of the first c, -1 if none
PyFind(s, c) ==
    IF InSeq(c, s) THEN IndexOf(c, s) - 1 ELSE -1

\* s[a:b] for a >= 0 (a negative b counts from the end)
PySlice(s, a, b) ==
    LET n  == Len(s)
        b1 == IF b < 0 THEN (IF b + n < 0 THEN 0 ELSE b + n) ELSE b
        b2 == IF b1 > n THEN n ELSE b1
    IN  IF a >= b2 THEN <<>> ELSE SubSeq(s, a + 1, b2)

\* s.split(c) for a one-character c
RECURSIVE PySplit(_, _)
PySplit(s, c) ==
    LET i == PyFind(s, c)
    IN  IF i = -1 THEN <<s>>
        ELSE <<PySlice(s, 0, i)>> \o PySplit(PySlice(s, i + 1, Len(s)), c)

\* s.replace(a, b) for one-character a and b
PyReplace(s, a, b) == [i \in 1..Len(s) |-> IF s[i] = a THEN b ELSE s[i]]

\* s.lower()
PyLower(s) ==
    [i \in 1..Len(s) |->
        IF InSeq(s[i], UpperCase) THEN LowerCase[IndexOf(s[i], UpperCase)] ELSE s[i]]

IsDigits(s) == Len(s) > 0 /\ \A i \in 1..Len(s) : InSeq(s[i], Digits)

RECURSIVE DigitsValue(_)
DigitsValue(s) ==
    IF s = <<>> THEN 0
    ELSE 10 * DigitsValue(SubSeq(s, 1, Len(s) - 1)) + (IndexOf(s[Len(s)], Digits) - 1)

\* int(s): an optional sign and decimal digits; anything else raises ValueError
\* (the blanks and underscores int() also accepts occur in no type of the model)
PyIntOk(s) ==
    IF Len(s) > 0 /\ s[1] \in {"+", "-"} THEN IsDigits(Tail(s)) ELSE IsDigits(s)

PyInt(s) ==
    IF s[1] = "-" THEN 0 - DigitsValue(Tail(s))
    ELSE IF s[1] = "+" THEN DigitsValue(Tail(s))
    ELSE DigitsValue(s)

RECURSIVE NatStr(_)
NatStr(n) ==
    IF n < 10 THEN <<Digits[n + 1]>> ELSE NatStr(n \div 10) \o <<Digits[(n % 10) + 1]>>

\* str(n)
PyStr(n) == IF n < 0 THEN <<"-">> \o NatStr(0 - n) ELSE NatStr(n)

\* key in d, d[key], d[key] = val
DictHas(d, k) == \E i \in 1..Len(d) : d[i][1] = k

DictGet(d, k) == d[CHOOSE i \in 1..Len(d) : d[i][1] = k][2]

DictSet(d, k, v) ==
    IF DictHas(d, k)
    THEN [i \in 1..Len(d) |-> IF d[i][1] = k THEN <<k, v>> ELSE d[i]]
    ELSE Append(d, <<k, v>>)

(***************************************************************************)
(* The module-level tables.                                                *)
(***************************************************************************)
ros_primitive_type ==
    << <<"b","o","o","l">>,
       <<"i","n","t","8">>,
       <<"u","i","n","t","8">>,
       <<"i","n","t","1","6">>,
       <<"u","i","n","t","1","6">>,
       <<"i","n","t","3","2">>,
       <<"u","i","n","t","3","2">>,
       <<"i","n","t","6","4">>,
       <<"u","i","n","t","6","4">>,
       <<"f","l","o","a","t","3","2">>,
       <<"f","l","o","a","t","6","4">>,
       <<"s","t","r","i","n","g">>,
       <<"t","i","m","e">>,
       <<"d","u","r","a","t","i","o","n">> >>

primitive_types_map ==
    << <<<<"b","o","o","l">>, <<"T","-","B","o","o","l","e","a","n">>>>,
       <<<<"i","n","t","8">>, <<"T","-","I","n","t","8">>>>,
       <<<<"u","i","n","t","8">>, <<"T","-","U","I","n","t","8">>>>,
       <<<<"i","n","t","1","6">>, <<"T","-","I","n","t","1","6">>>>,
       <<<<"u","i","n","t","1","6">>, <<"T","-","U","I","n","t","1","6">>>>,
       <<<<"i","n","t","3","2">>, <<"T","-","I","n","t","3","2">>>>,
       <<<<"u","i","n","t","3","2">>, <<"T","-","U","I","n","t","3","2">>>>,
       <<<<"i","n","t","6","4">>, <<"T","-","I","n","t","6","4">>>>,
       <<<<"u","i","n","t","6","4">>, <<"T","-","U","I","n","t","6","4">>>>,
       <<<<"f","l","o","a","t","3","2">>, <<"T","-","F","l","o","a","t">>>>,
       <<<<"f","l","o","a","t","6","4">>, <<"T","-","D","o","u","b","l","e">>>>,
       <<<<"s","t","r","i","n","g">>, <<"T","-","S","t","r","i","n","g">>>>,
       <<<<"t","i","m","e">>, <<"T","i","m","e">>>>,
       <<<<"d","u","r","a","t","i","o","n">>, <<"D","u","r","a","t","i","o","n">>>>,
       <<<<"b","y","t","e">>, <<"T","-","I","n","t","8">>>>,
       <<<<"c","h","a","r">>, <<"T","-","U","i","n","t","8">>>> >>

TASTE_BasicTypes == <<"T","A","S","T","E","-","B","a","s","i","c","T","y","p","e","s">>

TASTE_ExtendedTypes ==
    <<"T","A","S","T","E","-","E","x","t","e","n","d","e","d","T","y","p","e","s">>

Time_Types == <<"T","i","m","e","-","T","y","p","e","s">>

\* the keys of the three loops that fill `libraries`
BasicKeys ==
    << <<"T","_","B","o","o","l","e","a","n">>,
       <<"T","-","I","n","t","8">>,
       <<"T","-","U","i","n","t","8">>,
       <<"T","-","I","n","t","3","2">>,
       <<"T","-","U","I","n","t","3","2">> >>

ExtendedKeys ==
    << <<"T","-","I","n","t","1","6">>,
       <<"T","-","U","i","n","t","1","6">>,
       <<"T","-","I","n","t","6","4">>,
       <<"T","-","U","i","n","t","6","4">>,
       <<"T","-","F","l","o","a","t">>,
       <<"T","-","D","o","u","b","l","e">>,
       <<"T","-","S","t","r","i","n","g">> >>

TimeKeys ==
    << <<"T","i","m","e">>,
       <<"D","u","r","a","t","i","o","n">> >>

\* for key in keys: d[key] = lib
RECURSIVE FillLibrary(_, _, _)
FillLibrary(d, keys, lib) ==
    IF keys = <<>> THEN d
    ELSE FillLibrary(DictSet(d, Head(keys), lib), Tail(keys), lib)

libraries ==
    FillLibrary(
        FillLibrary(
            FillLibrary(<<>>, BasicKeys, TASTE_BasicTypes),
            ExtendedKeys, TASTE_ExtendedTypes),
        TimeKeys, Time_Types)

(***************************************************************************)
(* find_field_type and find_ASN1_type.  ok = FALSE stands for the          *)
(* exception the code raises there (IndexError, ValueError, KeyError).     *)
(***************************************************************************)
\* lines 196-198, with str_length = slot_type[idx+1:idx_end]
FixedLength(slot_type, idx, str_length) ==
    IF PyIntOk(str_length)
    THEN [ok |-> TRUE, slot_type |-> PySlice(slot_type, 0, idx),
          field_type |-> "fixed-length", length |-> PyInt(str_length)]
    ELSE \* int(str_length) raises ValueError
         [ok |-> FALSE, slot_type |-> slot_type, field_type |-> "fixed-length", length |-> 1]

\* lines 189-200, with idx = slot_type.find("[")
FieldTypeAt(slot_type, idx) ==
    IF idx = -1
    THEN [ok |-> TRUE, slot_type |-> slot_type, field_type |-> "simple", length |-> 1]
    ELSE IF idx + 1 >= Len(slot_type)
    THEN \* slot_type[idx + 1] raises IndexError
         [ok |-> FALSE, slot_type |-> slot_type, field_type |-> "simple", length |-> 1]
    ELSE IF slot_type[idx + 2] = "]"
    THEN [ok |-> TRUE, slot_type |-> PySlice(slot_type, 0, idx),
          field_type |-> "variable-length", length |-> 1]
    ELSE FixedLength(slot_type, idx, PySlice(slot_type, idx + 1, PyFind(slot_type, "]")))

find_field_type(slot_type) == FieldTypeAt(slot_type, PyFind(slot_type, "["))

Types_Suffix == <<"-","T","y","p","e","s">>

\* slot_type in ros_primitive_type
IsPrimitive(slot_type) == InSeq(slot_type, ros_primitive_type)

\* lines 215-217, with asn1_type = primitive_types_map[slot_type]
PrimitiveType(asn1_type) ==
    IF DictHas(libraries, asn1_type)
    THEN [ok |-> TRUE, asn1_type |-> asn1_type,
          lib_asn |-> DictGet(libraries, asn1_type), primitive |-> TRUE]
    ELSE \* libraries[asn1_type] raises KeyError
         [ok |-> FALSE, asn1_type |-> asn1_type, lib_asn |-> <<>>, primitive |-> FALSE]

\* lines 220-226, with composed_type = slot_type.split("/")
ComposedType(composed_type) ==
    IF Len(composed_type) = 1
    THEN \* composed_type[1] raises IndexError
         [ok |-> FALSE, asn1_type |-> <<>>, lib_asn |-> <<>>, primitive |-> FALSE]
    ELSE [ok |-> TRUE, asn1_type |-> composed_type[2],
          lib_asn |-> composed_type[2] \o Types_Suffix, primitive |-> FALSE]

find_ASN1_type(slot_type) ==
    IF IsPrimitive(slot_type)
    THEN PrimitiveType(DictGet(primitive_types_map, slot_type))
    ELSE ComposedType(PySplit(slot_type, "/"))

(***************************************************************************)
(* Text pieces of the generated module.                                    *)
(***************************************************************************)
TXT_Header ==
    <<"-","T","y","p","e","s"," ","D","E","F","I","N","I","T","I","O","N","S"," ",
      ":",":","=","\n","B","E","G","I","N","\n">>

TXT_Imports == <<"I","M","P","O","R","T","S"," ">>

TXT_From == <<" ","F","R","O","M"," ">>

TXT_Comma == <<","," ">>

TXT_Assign == <<":",":","=">>

TXT_SeqSize ==
    <<" ","S","E","Q","U","E","N","C","E"," ","(","S","I","Z","E","(","0",".",".">>

TXT_Of == <<")",")"," ","O","F"," ">>

TXT_SeqSize256 ==
    <<" ","S","E","Q","U","E","N","C","E"," ","(","S","I","Z","E","(","0",".",".",
      "2","5","6",")",")"," ","O","F"," ">>

TXT_BodyOpen == <<":",":","=","\n","S","E","Q","U","E","N","C","E","\n","{","\n">>

TXT_BodyClose == <<"\n","}","\n">>

TXT_End == <<"E","N","D">>

TXT_FieldSuffix == <<"-","f","i","e","l","d">>

TXT_Type == <<"t","y","p","e">>

TXT_FieldSep == <<",","\n">>

(***************************************************************************)
(* generate_libraries_string: one clause per key of import_libraries, in   *)
(* the order of iteration of the dict (insertion order).                   *)
(***************************************************************************)
\* for t in import_libraries[key]: s += comma + t; comma = ", "
RECURSIVE JoinTypes(_, _)
JoinTypes(types, comma) ==
    IF types = <<>> THEN <<>>
    ELSE comma \o Head(types) \o JoinTypes(Tail(types), TXT_Comma)

RECURSIVE LibraryClauses(_)
LibraryClauses(import_libraries) ==
    IF import_libraries = <<>> THEN <<>>
    ELSE JoinTypes(Head(import_libraries)[2], <<>>) \o TXT_From
         \o Head(import_libraries)[1] \o <<" ">>
         \o LibraryClauses(Tail(import_libraries))

generate_libraries_string(import_libraries) ==
    TXT_Imports \o LibraryClauses(import_libraries) \o <<";">> \o <<"\n">>

(***************************************************************************)
(* process_msg, from the message dictionary on (lines 276-346).            *)
(***************************************************************************)
\* lines 291-295: the type joins the list of its library, once
AddImport(import_libraries, lib_asn, asn1_type) ==
    IF DictHas(import_libraries, lib_asn)
    THEN IF ~InSeq(asn1_type, DictGet(import_libraries, lib_asn))
         THEN DictSet(import_libraries, lib_asn,
                      Append(DictGet(import_libraries, lib_asn), asn1_type))
         ELSE import_libraries
    ELSE DictSet(import_libraries, lib_asn, <<asn1_type>>)

\* AddDep without its test: every base type is appended
AddDepAlways(msg_deps, slot_type, primitive) == Append(msg_deps, slot_type)

\* line 299-300: if not primitive: msg_deps.append(slot_type)
AddDep(msg_deps, slot_type, primitive) ==
    IF ~primitive THEN Append(msg_deps, slot_type) ELSE msg_deps

\* lines 288-300: the loop over slot_types; it stops at the first exception.
\* f and a are what find_field_type and find_ASN1_type return for field i.
RECURSIVE FieldLoop(_, _, _)
FieldStepType(slot_types, i, acc, f, a) ==
    IF ~a.ok THEN [acc EXCEPT !.ok = FALSE]
    ELSE FieldLoop(slot_types, i + 1,
            [ok               |-> TRUE,
             import_libraries |-> AddImport(acc.import_libraries, a.lib_asn, a.asn1_type),
             slot_asn1_types  |-> Append(acc.slot_asn1_types, a.asn1_type),
             field_types      |-> Append(acc.field_types, f.field_type),
             lengths          |-> Append(acc.lengths, f.length),
             msg_deps         |-> AddDep(acc.msg_deps, f.slot_type, a.primitive)])

FieldStep(slot_types, i, acc, f) ==
    IF ~f.ok THEN [acc EXCEPT !.ok = FALSE]
    ELSE FieldStepType(slot_types, i, acc, f, find_ASN1_type(f.slot_type))

FieldLoop(slot_types, i, acc) ==
    IF i > Len(slot_types) THEN acc
    ELSE FieldStep(slot_types, i, acc, find_field_type(slot_types[i]))

\* [i for i, x in enumerate(field_types) if x == kind], as 1-based indices
IndicesOf(field_types, kind) ==
    LET F[i \in 0..Len(field_types)] ==
            IF i = 0 THEN <<>>
            ELSE IF field_types[i] = kind THEN Append(F[i - 1], i) ELSE F[i - 1]
    IN  F[Len(field_types)]

\* ArrayFieldType without the assignment: the field stays an array
ArrayFieldTypeKept(old) == old

\* line 312, 319: field_types[i] = "simple"
ArrayFieldType(old) == "simple"

\* FixedArray with the bound of the variable-length arrays
FixedArrayCapped(i, name, length, st) ==
    [msg_string      |-> st.msg_string \o name \o TXT_Assign \o TXT_SeqSize256
                         \o st.slot_asn1_types[i] \o <<"\n">>,
     field_types     |-> [st.field_types EXCEPT ![i] = ArrayFieldType(st.field_types[i])],
     slot_asn1_types |-> [st.slot_asn1_types EXCEPT ![i] = name]]

\* lines 309-313, with name = "L" + slots[i].replace("_", "-")
FixedArray(i, name, length, st) ==
    [msg_string      |-> st.msg_string \o name \o TXT_Assign
                         \o TXT_SeqSize \o PyStr(length) \o TXT_Of
                         \o st.slot_asn1_types[i] \o <<"\n">>,
     field_types     |-> [st.field_types EXCEPT ![i] = ArrayFieldType(st.field_types[i])],
     slot_asn1_types |-> [st.slot_asn1_types EXCEPT ![i] = name]]

\* lines 308-313: for i in fixed_indices
RECURSIVE FixedLoop(_, _, _, _)
FixedLoop(indices, slots, lengths, st) ==
    IF indices = <<>> THEN st
    ELSE FixedLoop(Tail(indices), slots, lengths,
                   FixedArray(Head(indices),
                              <<"L">> \o PyReplace(slots[Head(indices)], "_", "-"),
                              lengths[Head(indices)], st))

\* lines 316-320, with name = "V" + slots[i].replace("_", "-")
VariableArray(i, name, st) ==
    [msg_string      |-> st.msg_string \o name \o TXT_Assign \o TXT_SeqSize256
                         \o st.slot_asn1_types[i] \o <<"\n">>,
     field_types     |-> [st.field_types EXCEPT ![i] = ArrayFieldType(st.field_types[i])],
     slot_asn1_types |-> [st.slot_asn1_types EXCEPT ![i] = name]]

\* lines 315-320: for i in variable_indices
RECURSIVE VariableLoop(_, _, _)
VariableLoop(indices, slots, st) ==
    IF indices = <<>> THEN st
    ELSE VariableLoop(Tail(indices), slots,
                      VariableArray(Head(indices),
                                    <<"V">> \o PyReplace(slots[Head(indices)], "_", "-"),
                                    st))

\* RenameField comparing the names as they are written
RenameFieldExact(slot, asn1_type) ==
    IF slot = asn1_type THEN slot \o TXT_FieldSuffix ELSE slot

\* lines 324-327 and 336-339: the two renamings of slots[i], in place
RenameType(slot, asn1_type) ==
    IF slot = TXT_Type THEN slot \o <<"-">> \o asn1_type ELSE slot

RenameField(slot, asn1_type) ==
    IF PyLower(slot) = PyLower(asn1_type) THEN slot \o TXT_FieldSuffix ELSE slot

RenamedSlot(slot, asn1_type) == RenameField(RenameType(slot, asn1_type), asn1_type)

\* lines 325-330, with slot = slots[0] after the two renamings
SingleFieldBody(msg_name, st, slots, slot) ==
    [msg_string |-> st.msg_string \o msg_name \o TXT_BodyOpen
                    \o <<"\t">> \o PyReplace(slot, "_", "-") \o <<"\t">>
                    \o st.slot_asn1_types[1] \o TXT_BodyClose,
     slots      |-> [slots EXCEPT ![1] = slot]]

\* lines 322-330: a message of one field
SingleField(msg_name, st, slots) ==
    IF st.field_types[1] = "simple"
    THEN SingleFieldBody(msg_name, st, slots, RenamedSlot(slots[1], st.slot_asn1_types[1]))
    ELSE [msg_string |-> st.msg_string, slots |-> slots]

\* lines 334-342: for i in range(num_fields); b is msg_string and slots so far
RECURSIVE BodyLoop(_, _, _, _)
BodyField(i, st, b, comma, slot) ==
    BodyLoop(i + 1, st,
             [msg_string |-> b.msg_string \o comma \o <<"\t">>
                             \o PyReplace(slot, "_", "-") \o <<"\t">>
                             \o st.slot_asn1_types[i],
              slots      |-> [b.slots EXCEPT ![i] = slot]],
             TXT_FieldSep)

BodyLoop(i, st, b, comma) ==
    IF i > Len(st.field_types) THEN b
    ELSE IF st.field_types[i] = "simple"
    THEN BodyField(i, st, b, comma, RenamedSlot(b.slots[i], st.slot_asn1_types[i]))
    ELSE BodyLoop(i + 1, st, b, comma)

\* line 343: msg_string += "\n}\n"
CloseBody(b) == [msg_string |-> b.msg_string \o TXT_BodyClose, slots |-> b.slots]

\* lines 331-343: a message of no field or of several
SeveralFields(msg_name, st, slots) ==
    CloseBody(BodyLoop(1, st,
                       [msg_string |-> st.msg_string \o msg_name \o TXT_BodyOpen,
                        slots      |-> slots],
                       <<>>))

\* lines 344-346: msg_string += "END"; return msg_string, msg_deps
Returned(msg_deps, body) ==
    [outcome |-> "ok", msg_string |-> body.msg_string \o TXT_End,
     msg_deps |-> msg_deps, slots |-> body.slots]

\* lines 322-346, st being msg_string, field_types and slot_asn1_types after
\* the two loops over the arrays
EmitBody(msg_name, num_fields, slots, msg_deps, st) ==
    Returned(msg_deps,
             IF num_fields = 1 THEN SingleField(msg_name, st, slots)
             ELSE SeveralFields(msg_name, st, slots))

\* lines 302-346, loop being what the loop over slot_types built
AfterLoop(msg_name, num_fields, slots, loop) ==
    IF ~loop.ok
    THEN [outcome |-> "raise", msg_string |-> <<>>, msg_deps |-> <<>>, slots |-> slots]
    ELSE EmitBody(msg_name, num_fields, slots, loop.msg_deps,
            VariableLoop(IndicesOf(loop.field_types, "variable-length"), slots,
                FixedLoop(IndicesOf(loop.field_types, "fixed-length"), slots, loop.lengths,
                    [msg_string      |-> msg_name \o TXT_Header
                                         \o generate_libraries_string(loop.import_libraries),
                     field_types     |-> loop.field_types,
                     slot_asn1_types |-> loop.slot_asn1_types])))

\* lines 276-346.  msg_dict["slots"] is the list object of the message class
\* (genpy's __slots__ is a list), so what the code assigns to slots[i] stays in
\* the class: `slots` of the result is that list after the call.
Translate(msg_name, msg_dict) ==
    AfterLoop(msg_name, Len(msg_dict.slot_types), msg_dict.slots,
              FieldLoop(msg_dict.slot_types, 1,
                        [ok |-> TRUE, import_libraries |-> <<>>,
                         slot_asn1_types |-> <<>>, field_types |-> <<>>,
                         lengths |-> <<>>, msg_deps |-> <<>>]))

(***************************************************************************)
(* The ROS installation the script runs in.  It is not part of the script: *)
(* the packages, their .msg files and their generated Python classes are   *)
(* a fixed installation, large enough to hold a dependency cycle           *)
(* (a/A <-> b/B), a message that refers to itself (c/S), two messages of   *)
(* different packages with one name (p/F, q/F), a package without Python   *)
(* module (m), a .msg file without class (a/O) and a reference into a      *)
(* package that is not installed (z/Z).                                    *)
(***************************************************************************)
\* <<package, message>> of every .msg file
MsgFiles ==
    { <<<<"a">>, <<"A">>>>,
      <<<<"b">>, <<"B">>>>,
      <<<<"c">>, <<"S">>>>,
      <<<<"p">>, <<"F">>>>,
      <<<<"q">>, <<"F">>>>,
      <<<<"g">>, <<"Q">>>>,
      <<<<"d">>, <<"D">>>>,
      <<<<"g">>, <<"P">>>>,
      <<<<"m">>, <<"M">>>>,
      <<<<"a">>, <<"O">>>> }

Packages == {m[1] : m \in MsgFiles}

\* the packages whose <package>.msg module imports
PyPackages == Packages \ {<<"m">>}

ProbeMsg == <<<<"g">>, <<"P">>>>

\* the generated classes, but for g/P: <<package, message>> and its
\* __slots__ and _slot_types
InstalledClasses ==
    << <<<<<<"a">>, <<"A">>>>, [slots |-> <<<<"b">>>>, slot_types |-> <<<<"b","/","B">>>>]>>,
       <<<<<<"b">>, <<"B">>>>, [slots |-> <<<<"a">>, <<"n">>>>, slot_types |-> <<<<"a","/","A">>, <<"i","n","t","3","2">>>>]>>,
       <<<<<<"c">>, <<"S">>>>, [slots |-> <<<<"s">>>>, slot_types |-> <<<<"c","/","S","[","]">>>>]>>,
       <<<<<<"p">>, <<"F">>>>, [slots |-> <<<<"x">>>>, slot_types |-> <<<<"i","n","t","3","2">>>>]>>,
       <<<<<<"q">>, <<"F">>>>, [slots |-> <<<<"y">>>>, slot_types |-> <<<<"t","i","m","e">>>>]>>,
       <<<<<<"g">>, <<"Q">>>>, [slots |-> <<<<"f","_","1">>, <<"f","_","2">>>>, slot_types |-> <<<<"p","/","F">>, <<"q","/","F","[","2","]">>>>]>>,
       <<<<<<"d">>, <<"D">>>>, [slots |-> <<<<"z">>>>, slot_types |-> <<<<"z","/","Z">>>>]>> >>

\* the names and the types of the fields g/P may have
FieldNames ==
    { <<"t","y","p","e">>, <<"t","i","m","e">>, <<"a","_","b">> }

FieldTypes ==
    { <<"i","n","t","3","2">>,
      <<"t","i","m","e">>,
      <<"i","n","t","3","2","[","2","]">>,
      <<"t","i","m","e","[","]">>,
      <<"g","/","Q">>,
      <<"g","/","Q","[","3","]">>,
      <<"i","n","t","3","2","[","x","]">> }

\* the sequences over S of length at most n
SeqsUpTo(S, n) == UNION {[1..k -> S] : k \in 0..n}

\* the type names the script's tables name
TableTypes ==
    {ros_primitive_type[i] : i \in 1..Len(ros_primitive_type)}
    \cup {primitive_types_map[i][1] : i \in 1..Len(primitive_types_map)}

\* the definitions g/P may have: up to MaxFields fields of those names and types,
\* field names being unique within a message, or one field of a type of the tables
ProbeSchemas ==
    {[slots |-> ns, slot_types |-> ts] :
        <<ns, ts>> \in {p \in SeqsUpTo(FieldNames, MaxFields) \X SeqsUpTo(FieldTypes, MaxFields) :
                           /\ Len(p[1]) = Len(p[2])
                           /\ \A i, j \in 1..Len(p[1]) : i # j => p[1][i] # p[1][j]}}
    \cup {[slots |-> <<n>>, slot_types |-> <<t>>] : n \in FieldNames, t \in TableTypes}

DefaultProbe == [slots |-> <<>>, slot_types |-> <<>>]

\* the names the command line may give
RequestNames ==
    { <<"a","/","A">>,
      <<"A">>,
      <<"b","/","B">>,
      <<"c","/","S">>,
      <<"p","/","F">>,
      <<"q","/","F">>,
      <<"F">>,
      <<"g","/","Q">>,
      <<"d","/","D">>,
      <<"m","/","M">>,
      <<"a","/","O">>,
      <<"z","/","Z">>,
      <<"N">> }

\* the command lines that name g/P: by its qualified name, and then once more by
\* its bare name
ProbeRequests == {<<<<"g","/","P">>>>} \cup
                 (IF MaxRequest >= 2 THEN {<<<<"g","/","P">>, <<"P">>>>} ELSE {})

OutDir == <<"/","t","m","p","/","a","s","n","1","_","m","s","g","s","/">>

TXT_Asn == <<".","a","s","n">>

(***************************************************************************)
(* Resolution of a name (lines 85-173 and 258-274).                        *)
(***************************************************************************)
\* rosmsg.list_msgs(package): the names of the package's messages
list_msgs(pkg) == {m[1] \o <<"/">> \o m[2] : m \in {f \in MsgFiles : f[1] = pkg}}

\* rosmsg.rosmsg_search(rospack, MODE_MSG, msg): every package's message of that name
rosmsg_search(msg) == {m[1] \o <<"/">> \o m[2] : m \in {f \in MsgFiles : f[2] = msg}}

\* get_message_package: "ok" with msg_name and pkg_name, "none" for (None, None),
\* "raise" when list_msgs raises.  What list_msgs does for a package that is not
\* installed is the library's choice: both an empty list and an exception are
\* outcomes.
NoPackage(outcome) == [outcome |-> outcome, msg_name |-> <<>>, pkg_name |-> <<>>]

\* lines 98-104, with parts = msg.split('/')
Qualified(msg, parts) ==
    IF parts[1] \notin Packages
    THEN {NoPackage("none"), NoPackage("raise")}
    ELSE IF msg \notin list_msgs(parts[1])
    THEN {NoPackage("none")}
    ELSE {[outcome |-> "ok", msg_name |-> parts[2], pkg_name |-> parts[1]]}

\* lines 108-124, with found = the messages of that name
Unqualified(found) ==
    IF Cardinality(found) = 1
    THEN {[outcome |-> "ok", msg_name |-> PySplit(m, "/")[2],
           pkg_name |-> PySplit(m, "/")[1]] : m \in found}
    ELSE {NoPackage("none")}

get_message_package(msg) ==
    IF InSeq("/", msg) THEN Qualified(msg, PySplit(msg, "/"))
    ELSE Unqualified(rosmsg_search(msg))

\* get_python_msg_module: None when the import fails
get_python_msg_module(pkg) == pkg \in PyPackages

\* get_message_dict: None when the module holds no such class
HasClass(cls, pkg, msg) == <<pkg, msg>> \in DOMAIN cls

get_message_dict(cls, pkg, msg) == cls[<<pkg, msg>>]

NoResult(outcome) ==
    [outcome |-> outcome, msg_name |-> <<>>, pkg_name |-> <<>>,
     msg_string |-> <<>>, msg_deps |-> <<>>, slots |-> <<>>]

\* lines 276-346, t being what the translation gives
Processed(msg_name, pkg_name, t) ==
    [outcome |-> t.outcome, msg_name |-> msg_name, pkg_name |-> pkg_name,
     msg_string |-> t.msg_string, msg_deps |-> t.msg_deps, slots |-> t.slots]

\* lines 263-346, r being what get_message_package gave
ProcessResolved(cls, r) ==
    IF r.outcome # "ok" THEN NoResult(r.outcome)
    ELSE IF ~get_python_msg_module(r.pkg_name) \/ ~HasClass(cls, r.pkg_name, r.msg_name)
    THEN NoResult("none")
    ELSE Processed(r.msg_name, r.pkg_name,
                   Translate(r.msg_name, get_message_dict(cls, r.pkg_name, r.msg_name)))

\* process_msg: the outcomes of one call; "ok" with (msg_string, msg_deps) and the
\* __slots__ the call leaves, "none" for (None, None), "raise" for an exception
process_msg(cls, msg) == {ProcessResolved(cls, r) : r \in get_message_package(msg)}

(***************************************************************************)
(* save_msg and the loop of main.                                          *)
(***************************************************************************)
\* the path save_msg writes
ArtifactPath(msg, out_dir) ==
    out_dir \o (IF InSeq("/", msg) THEN PySplit(msg, "/")[2] ELSE msg) \o TXT_Asn

\* open(path, "w"); write; close
save_msg(fs, asn1_str, msg, out_dir) ==
    LET path == ArtifactPath(msg, out_dir)
    IN  [f \in (DOMAIN fs) \cup {path} |-> IF f = path THEN asn1_str ELSE fs[f]]

\* lines 409-413: for dep in msg_deps
ShouldQueue(dep, pending, generated) == ~InSeq(dep, pending) /\ ~InSeq(dep, generated)

RECURSIVE QueueDeps(_, _, _)
QueueDeps(msg_deps, pending, generated) ==
    IF msg_deps = <<>> THEN pending
    ELSE QueueDeps(Tail(msg_deps),
                   IF ShouldQueue(Head(msg_deps), pending, generated)
                   THEN Append(pending, Head(msg_deps)) ELSE pending,
                   generated)

VARIABLES
    messages,        \* main: the names still to generate (args.messages)
    generated_msgs,  \* main: the names generated, in order
    files,           \* the files of the output directory: path -> content
    classes,         \* the message classes: <<package, message>> -> __slots__, _slot_types
    pc,              \* "run" in the loop of main, "exit" once the process has ended
    exit_status,     \* the exit status of the process, -1 while it runs
    msg,             \* main: the name popped last, <<>> before the first pop
    log,             \* history: one entry per pass of the loop that generated a message
    request          \* history: the names given on the command line

vars == <<messages, generated_msgs, files, classes, pc, exit_status, msg, log, request>>

ARGS_ERROR == 1

OK == 0

ClassTable(schema) ==
    [k \in {c[1] : c \in {InstalledClasses[i] : i \in 1..Len(InstalledClasses)}}
            \cup {ProbeMsg} |->
        IF k = ProbeMsg THEN schema ELSE DictGet(InstalledClasses, k)]

Init ==
    /\ \E schema \in ProbeSchemas, req \in SeqsUpTo(RequestNames, MaxRequest) \cup ProbeRequests :
          /\ schema = DefaultProbe \/ req \in ProbeRequests
          /\ classes = ClassTable(schema)
          /\ messages = req
          /\ request = req
    /\ generated_msgs = <<>>
    /\ files = <<>>
    /\ pc = "run"
    /\ exit_status = -1
    /\ msg = <<>>
    /\ log = <<>>

\* lines 402-413: one pass of the loop, process_msg having returned text
Generate ==
    /\ pc = "run"
    /\ messages # <<>>
    /\ \E r \in process_msg(classes, Head(messages)) :
          /\ r.outcome = "ok"
          /\ msg' = Head(messages)
          /\ files' = save_msg(files, r.msg_string, msg', OutDir)
          /\ generated_msgs' = Append(generated_msgs, msg')
          /\ messages' = QueueDeps(r.msg_deps, Tail(messages), generated_msgs')
          /\ classes' = [classes EXCEPT ![<<r.pkg_name, r.msg_name>>].slots = r.slots]
          /\ log' = Append(log, [msg        |-> msg',
                                 msg_name   |-> r.msg_name,
                                 pkg_name   |-> r.pkg_name,
                                 slots      |-> classes[<<r.pkg_name, r.msg_name>>].slots,
                                 slot_types |-> classes[<<r.pkg_name, r.msg_name>>].slot_types,
                                 asn1_str   |-> r.msg_string,
                                 msg_deps   |-> r.msg_deps,
                                 pending    |-> Tail(messages),
                                 generated  |-> generated_msgs',
                                 queue      |-> messages'])
    /\ UNCHANGED <<pc, exit_status, request>>

\* GenerateError without the exit: the loop goes on with the next name
GenerateErrorContinue ==
    /\ pc = "run"
    /\ messages # <<>>
    /\ \E r \in process_msg(classes, Head(messages)) : r.outcome = "none"
    /\ msg' = Head(messages)
    /\ messages' = Tail(messages)
    /\ UNCHANGED <<generated_msgs, files, classes, pc, exit_status, log, request>>

\* lines 404-406: process_msg returned None: sys.exit(ErrorCodes.ARGS_ERROR.value)
GenerateError ==
    /\ pc = "run"
    /\ messages # <<>>
    /\ \E r \in process_msg(classes, Head(messages)) : r.outcome = "none"
    /\ msg' = Head(messages)
    /\ messages' = Tail(messages)
    /\ pc' = "exit"
    /\ exit_status' = ARGS_ERROR
    /\ UNCHANGED <<generated_msgs, files, classes, log, request>>

\* an exception leaves process_msg and main: the interpreter prints the
\* traceback and ends with status 1
Uncaught ==
    /\ pc = "run"
    /\ messages # <<>>
    /\ \E r \in process_msg(classes, Head(messages)) : r.outcome = "raise"
    /\ msg' = Head(messages)
    /\ messages' = Tail(messages)
    /\ pc' = "exit"
    /\ exit_status' = 1
    /\ UNCHANGED <<generated_msgs, files, classes, log, request>>

\* line 400: the list is empty, main returns
Finish ==
    /\ pc = "run"
    /\ messages = <<>>
    /\ pc' = "exit"
    /\ exit_status' = OK
    /\ UNCHANGED <<messages, generated_msgs, files, classes, msg, log, request>>

Next == Generate \/ GenerateError \/ Uncaught \/ Finish

Spec == Init /\ [][Next]_vars

(***************************************************************************)
(* What the properties speak of.                                           *)
(***************************************************************************)
Range(seq) == {seq[i] : i \in 1..Len(seq)}

NoDuplicates(seq) == \A i, j \in 1..Len(seq) : i # j => seq[i] # seq[j]

IsPrefix(p, q) == Len(p) <= Len(q) /\ SubSeq(q, 1, Len(p)) = p

\* the sixteen primitive type names of the data model
PrimitiveTypeNames ==
    Range(ros_primitive_type) \cup {<<"b","y","t","e">>, <<"c","h","a","r">>}

LibraryNames == {TASTE_BasicTypes, TASTE_ExtendedTypes, Time_Types}

\* a raw field type without its array suffix
BaseType(raw) == IF InSeq("[", raw) THEN PySlice(raw, 0, PyFind(raw, "[")) ELSE raw

\* the notation type of a raw field type
NotationType(raw) == find_ASN1_type(BaseType(raw)).asn1_type

Arity(raw) == find_field_type(raw).field_type

Hyphenated(name) == PyReplace(name, "_", "-")

\* the positions of the fields of entry e that are arrays of the given arity
FieldsOf(e, arity) ==
    SelectSeq([i \in 1..Len(e.slot_types) |-> i], LAMBDA i : Arity(e.slot_types[i]) = arity)

ArrayFields(e) ==
    SelectSeq([i \in 1..Len(e.slot_types) |-> i], LAMBDA i : Arity(e.slot_types[i]) # "simple")

\* the name of the auxiliary type of field i of entry e
AuxName(e, i) ==
    (IF Arity(e.slot_types[i]) = "fixed-length" THEN <<"L">> ELSE <<"V">>)
    \o Hyphenated(e.slots[i])

\* the auxiliary definition the array field i of entry e is to have
AuxDefinition(e, i) ==
    AuxName(e, i) \o TXT_Assign \o TXT_SeqSize
    \o (IF Arity(e.slot_types[i]) = "fixed-length"
        THEN PyStr(find_field_type(e.slot_types[i]).length)
        ELSE <<"2","5","6">>)
    \o TXT_Of \o NotationType(e.slot_types[i])

\* the type a field has in the record body: its notation type, or its
\* auxiliary type when it is an array
EffectiveType(e, i) ==
    IF Arity(e.slot_types[i]) = "simple" THEN NotationType(e.slot_types[i])
    ELSE AuxName(e, i)

\* the lines of a generated text
Lines(text) == PySplit(text, "\n")

\* the line that opens the record body: <msg_name>::= ; 0 when there is none
BodyHeader(lines, msg_name) ==
    IF \E h \in 4..Len(lines) : lines[h] = msg_name \o TXT_Assign
    THEN CHOOSE h \in 4..Len(lines) :
            /\ lines[h] = msg_name \o TXT_Assign
            /\ \A g \in 4..(h - 1) : lines[g] # msg_name \o TXT_Assign
    ELSE 0

\* header, import clause, auxiliary definitions, record body, END
WellFormed(lines, msg_name, h) ==
    /\ Len(lines) >= 4
    /\ lines[1] = msg_name \o SubSeq(TXT_Header, 1, 22)
    /\ lines[2] = <<"B","E","G","I","N">>
    /\ IsPrefix(TXT_Imports, lines[3])
    /\ lines[Len(lines)] = TXT_End
    /\ h # 0 => /\ Len(lines) >= h + 4
                /\ lines[h + 1] = <<"S","E","Q","U","E","N","C","E">>
                /\ lines[h + 2] = <<"{">>
                /\ lines[Len(lines) - 1] = <<"}">>

\* the lines between the import clause and the record body (or END)
AuxLinesOf(lines, h) ==
    IF h = 0 THEN SubSeq(lines, 4, Len(lines) - 1) ELSE SubSeq(lines, 4, h - 1)

\* the field lines of the record body
FieldLinesOf(lines, h) ==
    IF h = 0 THEN <<>>
    ELSE SelectSeq(SubSeq(lines, h + 3, Len(lines) - 2), LAMBDA l : l # <<>>)

AuxLines(e) ==
    LET lines == Lines(e.asn1_str) IN AuxLinesOf(lines, BodyHeader(lines, e.msg_name))

FieldLines(e) ==
    LET lines == Lines(e.asn1_str) IN FieldLinesOf(lines, BodyHeader(lines, e.msg_name))

HasBody(e) ==
    LET lines == Lines(e.asn1_str)
    IN  /\ BodyHeader(lines, e.msg_name) # 0
        /\ WellFormed(lines, e.msg_name, BodyHeader(lines, e.msg_name))

\* the name and the type of a field line: <tab>name<tab>type, a comma after
\* all but the last
LineName(line) == PySplit(line, "\t")[2]

LineType(line) ==
    LET t == PySplit(line, "\t")[3]
    IN  IF t # <<>> /\ t[Len(t)] = "," THEN SubSeq(t, 1, Len(t) - 1) ELSE t

\* whether a name resolves to a message class
Resolves(name) ==
    \A r \in get_message_package(name) :
        /\ r.outcome = "ok"
        /\ get_python_msg_module(r.pkg_name)
        /\ HasClass(classes, r.pkg_name, r.msg_name)

\* the names the fields of a message refer to
DependsOn(name) ==
    IF ~Resolves(name) THEN {}
    ELSE UNION {{BaseType(t) : t \in Range(classes[<<r.pkg_name, r.msg_name>>].slot_types)}
                  : r \in get_message_package(name)}
         \ PrimitiveTypeNames

\* the names reachable from the names of S
RECURSIVE Reachable(_)
Reachable(S) ==
    IF UNION {DependsOn(n) : n \in S} \subseteq S THEN S
    ELSE Reachable(S \cup UNION {DependsOn(n) : n \in S})

EveryNameResolves == \A n \in Reachable(Range(request)) : Resolves(n)

\* a primitive type name or a qualified message name, alone or with the
\* suffix [] or [N]
WellFormedType(raw) ==
    /\ BaseType(raw) \in PrimitiveTypeNames \/ Len(PySplit(BaseType(raw), "/")) = 2
    /\ InSeq("[", raw) =>
          /\ raw[Len(raw)] = "]"
          /\ PySlice(raw, PyFind(raw, "[") + 1, Len(raw) - 1) = <<>>
             \/ IsDigits(PySlice(raw, PyFind(raw, "[") + 1, Len(raw) - 1))

\* the definitions of the messages reachable from the request are well formed
EveryTypeWellFormed ==
    \A n \in Reachable(Range(request)) :
        \A r \in get_message_package(n) :
            (r.outcome = "ok" /\ HasClass(classes, r.pkg_name, r.msg_name)) =>
                \A t \in Range(classes[<<r.pkg_name, r.msg_name>>].slot_types) :
                    WellFormedType(t)

\* every name of S is generated and has its file
Generated(S) ==
    \A n \in S : InSeq(n, generated_msgs) /\ ArtifactPath(n, OutDir) \in DOMAIN files

\* process_msg returns no text for the name, or raises
Fails(name) == \A r \in process_msg(classes, name) : r.outcome # "ok"

(***************************************************************************)
(* The properties.                                                         *)
(***************************************************************************)
\* the names a pass of the loop appended were neither pending nor generated,
\* and no name was appended twice
QueuedFresh(e) ==
    /\ SubSeq(e.queue, 1, Len(e.pending)) = e.pending
    /\ \A k \in (Len(e.pending) + 1)..Len(e.queue) :
          /\ ~InSeq(e.queue[k], e.pending)
          /\ ~InSeq(e.queue[k], e.generated)
          /\ \A j \in (Len(e.pending) + 1)..(k - 1) : e.queue[j] # e.queue[k]

\* the second half of C1 alone: a name that is pending or generated is never
\* appended to the pending names
NeverRequeued == \A k \in 1..Len(log) : QueuedFresh(log[k])

\* C1: whatever the names given and whatever the dependencies, no name is
\* generated more than once in a run, and a name that is pending or generated
\* is never appended to the pending names.
C1_GeneratedOnce ==
    /\ NoDuplicates(generated_msgs)
    /\ NeverRequeued

\* the loop of main never stalls: while the process runs, either the list is
\* empty (Finish) or process_msg has an outcome for the name at its head
\* (Generate, GenerateError or Uncaught)
NeverStalls ==
    pc = "run" => messages = <<>> \/ process_msg(classes, Head(messages)) # {}

\* every pass of the loop but the last generates a message, of which there are
\* no more than the names given and the names they reach: with NeverStalls,
\* the loop of main ends
BoundedWork ==
    /\ Len(log) = Len(generated_msgs)
    /\ Len(generated_msgs) <= Len(request) + Cardinality(Reachable(Range(request)))

\* C2 for the runs that end with status 0
ClosureGeneratedAtSuccess ==
    (pc = "exit" /\ exit_status = OK) =>
        /\ messages = <<>>
        /\ Range(generated_msgs) = Reachable(Range(request))
        /\ Generated(Range(generated_msgs))

\* C2: when every name reachable from the request resolves (to a well-formed
\* definition), the loop of main ends with no name pending and with exactly
\* the names reachable from the request generated, each with its file.
C2_ClosureGenerated ==
    (EveryNameResolves /\ EveryTypeWellFormed /\ pc = "exit") =>
        /\ messages = <<>>
        /\ Range(generated_msgs) = Reachable(Range(request))
        /\ Generated(Range(generated_msgs))

\* find_ASN1_type maps the primitive type name t as the tables say
MappedAsPrimitive(t) ==
    /\ find_ASN1_type(t).ok
    /\ find_ASN1_type(t).primitive
    /\ find_ASN1_type(t).asn1_type = DictGet(primitive_types_map, t)
    /\ find_ASN1_type(t).lib_asn \in LibraryNames

\* the field types of the message the name popped last resolves to
PoppedTypes ==
    IF msg = <<>> \/ ~Resolves(msg) THEN {}
    ELSE UNION {Range(classes[<<r.pkg_name, r.msg_name>>].slot_types)
                  : r \in get_message_package(msg)}

\* C3: for each of the sixteen primitive type names find_ASN1_type returns,
\* with primitive set, the notation type of primitive_types_map and one of the
\* three libraries: so it does for every field of a primitive type of the
\* message that main hands to process_msg.
C3_PrimitivesMapped ==
    \A t \in PoppedTypes :
        BaseType(t) \in PrimitiveTypeNames => MappedAsPrimitive(BaseType(t))

\* C4: when process_msg gives no text for the name popped, the process ends
\* in that step with a status other than 0, with no file written, no name
\* added to the generated ones; once ended nothing more is generated; and the
\* status is 0 only when every name requested and every name they reach is
\* generated and has its file.
C4_FailureHalts ==
    /\ [][(pc = "run" /\ messages # <<>> /\ Fails(Head(messages))) =>
             /\ pc' = "exit"
             /\ exit_status' # OK
             /\ files' = files
             /\ generated_msgs' = generated_msgs
             /\ log' = log]_vars
    /\ [][pc = "exit" => UNCHANGED vars]_vars
    /\ [](exit_status = OK =>
             /\ pc = "exit"
             /\ messages = <<>>
             /\ Generated(Reachable(Range(request))))

\* a run halted by a name that does not resolve, after a message was
\* generated and with names still pending
C4_Witness ==
    /\ pc = "exit"
    /\ exit_status = ARGS_ERROR
    /\ generated_msgs # <<>>
    /\ messages # <<>>
    /\ ~InSeq(msg, generated_msgs)

\* the auxiliary definitions of entry e are those of the fields at `order`
AuxDefinitionsAre(e, order) ==
    /\ LET lines == Lines(e.asn1_str)
       IN  WellFormed(lines, e.msg_name, BodyHeader(lines, e.msg_name))
    /\ AuxLines(e) = [k \in 1..Len(order) |-> AuxDefinition(e, order[k])]

\* C5 as stated: every text has one auxiliary definition per array field,
\* L<f> of size 0..N for a fixed array and V<f> of size 0..256 for a variable
\* one, between the import clause and the record body, in the order of the
\* fields.
C5_AuxInFieldOrder ==
    \A k \in 1..Len(log) : AuxDefinitionsAre(log[k], ArrayFields(log[k]))

\* C5 amended: every text process_msg returns has one auxiliary definition
\* per array field and none for the other fields, L<f> of size 0..N for a
\* fixed array and V<f> of size 0..256 for a variable one, between the import
\* clause and the record body: first those of the fixed arrays in the order
\* of the fields, then those of the variable arrays in the order of the
\* fields.
C5_AuxFixedThenVariable ==
    \A k \in 1..Len(log) :
        AuxDefinitionsAre(log[k], FieldsOf(log[k], "fixed-length")
                                  \o FieldsOf(log[k], "variable-length"))

\* a message generated that has a variable array before a fixed one
C5_Witness ==
    \E k \in 1..Len(log) :
        \E i, j \in 1..Len(log[k].slot_types) :
            /\ i < j
            /\ Arity(log[k].slot_types[i]) = "variable-length"
            /\ Arity(log[k].slot_types[j]) = "fixed-length"

\* the name a field is emitted under, its type in the body being `type`
EmittedName(slot, type) ==
    IF slot = TXT_Type THEN slot \o <<"-">> \o type
    ELSE IF PyLower(slot) = PyLower(type) THEN Hyphenated(slot) \o TXT_FieldSuffix
    ELSE Hyphenated(slot)

\* C6 as stated: in the record body a field named `type` is emitted as
\* type-<notation type>, a field whose name is its notation type but for the
\* case gets the suffix -field, every other field keeps its name with hyphens
\* for underscores; for scalar and for array fields alike.
C6_RenamedByNotationType ==
    \A k \in 1..Len(log) :
        LET lines == FieldLines(log[k])
        IN  /\ Len(lines) = Len(log[k].slots)
            /\ \A i \in 1..Len(log[k].slots) :
                  LineName(lines[i])
                     = EmittedName(log[k].slots[i], NotationType(log[k].slot_types[i]))

\* C6 amended: the two renamings go by the type the field has in the record
\* body, which is the notation type for a scalar field and the auxiliary type
\* L<f> or V<f> for an array field: a field named `type` is emitted as
\* type-<that type> (an array of T-Int32 named type as type-Ltype or
\* type-Vtype), a field whose name is that type but for the case gets the
\* suffix -field (no array field does), every other field keeps its name with
\* hyphens for underscores.
C6_RenamedByBodyType ==
    \A k \in 1..Len(log) :
        LET lines == FieldLines(log[k])
        IN  /\ Len(lines) = Len(log[k].slots)
            /\ \A i \in 1..Len(log[k].slots) :
                  LineName(lines[i]) = EmittedName(log[k].slots[i], EffectiveType(log[k], i))

\* a message generated with an array field named type and a scalar field
\* named as its notation type
C6_Witness ==
    \E k \in 1..Len(log) :
        \E i, j \in 1..Len(log[k].slots) :
            /\ log[k].slots[i] = TXT_Type
            /\ Arity(log[k].slot_types[i]) # "simple"
            /\ Arity(log[k].slot_types[j]) = "simple"
            /\ PyLower(log[k].slots[j]) = PyLower(NotationType(log[k].slot_types[j]))

\* the base types of the fields of e that are no primitive type, one per field
NonPrimitiveBases(e) ==
    LET bases == [i \in 1..Len(e.slot_types) |-> BaseType(e.slot_types[i])]
    IN  SelectSeq(bases, LAMBDA b : b \notin PrimitiveTypeNames)

\* seq without the later occurrences of its elements
RECURSIVE FirstSeen(_)
FirstSeen(seq) ==
    IF seq = <<>> THEN <<>>
    ELSE IF InSeq(seq[Len(seq)], SubSeq(seq, 1, Len(seq) - 1))
    THEN FirstSeen(SubSeq(seq, 1, Len(seq) - 1))
    ELSE Append(FirstSeen(SubSeq(seq, 1, Len(seq) - 1)), seq[Len(seq)])

C8_SchemaUnchanged ==
    \A k \in 1..Len(log) :
        /\ classes[<<log[k].pkg_name, log[k].msg_name>>].slots = log[k].slots
        /\ classes[<<log[k].pkg_name, log[k].msg_name>>].slot_types = log[k].slot_types
        /\ \A j \in 1..Len(log) :
              (log[j].pkg_name = log[k].pkg_name /\ log[j].msg_name = log[k].msg_name) =>
                  /\ log[j].asn1_str = log[k].asn1_str
                  /\ log[j].msg_deps = log[k].msg_deps

\* C9: every text process_msg returns has a record body, and the body lists
\* every field once, in the order of the fields, each with the type it has
\* after the array rewriting; a message of one field is no exception.
C9_BodyListsEveryField ==
    \A k \in 1..Len(log) :
        LET lines == FieldLines(log[k])
        IN  /\ HasBody(log[k])
            /\ Len(lines) = Len(log[k].slots)
            /\ \A i \in 1..Len(log[k].slots) :
                  /\ IsPrefix(Hyphenated(log[k].slots[i]), LineName(lines[i]))
                  /\ LineType(lines[i]) = EffectiveType(log[k], i)

\* a message of one field, an array, generated; and one of several fields
\* with an array among them
C9_Witness ==
    /\ \E k \in 1..Len(log) :
          Len(log[k].slots) = 1 /\ Arity(log[k].slot_types[1]) # "simple"
    /\ \E k \in 1..Len(log) :
          /\ Len(log[k].slots) > 1
          /\ \E i \in 1..Len(log[k].slots) : Arity(log[k].slot_types[i]) # "simple"

\* C10: at the end of a run of status 0 the file of every generated name
\* holds a text generated for the message of that name, not the text of
\* another message.
C10_OwnArtifact ==
    (pc = "exit" /\ exit_status = OK) =>
        \A k \in 1..Len(log) :
            /\ ArtifactPath(log[k].msg, OutDir) \in DOMAIN files
            /\ \E j \in 1..Len(log) :
                  /\ log[j].pkg_name = log[k].pkg_name
                  /\ log[j].msg_name = log[k].msg_name
                  /\ files[ArtifactPath(log[k].msg, OutDir)] = log[j].asn1_str

=============================================================================
